---- MODULE Spec2Model ----
(***************************************************************************)
(* Model of oracle-mock/app.py: the settlement bot that polls the          *)
(* marketplace contract, and for each campaign submits a lifecycle         *)
(* transition followed by a USDC transfer from the owner account.          *)
(*                                                                         *)
(* The chain (contract status, the owner's transaction count, the mempool, *)
(* the block timestamp) is the environment; the program is the __main__    *)
(* loop, process_campaigns, handle_campaign and sign_and_send_txn.         *)
(***************************************************************************)
EXTENDS Integers, Sequences, FiniteSets, TLC

\* ---------------------------------------------------------------- bounds
NumCampaigns == 2
MaxTime == 1
MaxTx == 3
MaxRuns == 2

\* ------------------------------------------------------- program constants
OPEN == 0
ACCEPTED == 1
FULFILLED == 2
DISCARDED == 3
UNFULFILLED == 4
Decimals == 1000000

Campaigns == 1..NumCampaigns
Statuses == {OPEN, ACCEPTED, FULFILLED, DISCARDED, UNFULFILLED}
Terminal == {FULFILLED, DISCARDED, UNFULFILLED}
Transitions == {"fulfil", "discard", "unfulfill"}
Lifecycle == Transitions \cup {"accept"}

\* ------------------------------------------------ the campaign records
\* getCampaignInfo(id)[2], [3], [4], [5], [6]: fixed when the campaign is made
creator(c) == <<"creator", c>>
kol(c) == <<"kol", c>>
offerDeadline(c) == c - 1
promotionDeadline(c) == c - 1
totalAmount(c) == c

VARIABLES
    \* the chain
    status,          \* campaign id -> status held by the contract
    txCount,         \* w3.eth.get_transaction_count(owner.address), block 'latest'
    now,             \* w3.eth.get_block('latest').timestamp
    log,             \* every transaction handed to send_raw_transaction, with its fate
    \* the process
    configOk,        \* all six environment variables are set
    pc,              \* position of the process
    exitCause,       \* why the process ended: "none", "config", "fetch", "campaign", "accept"
    all_campaigns,   \* process_campaigns: the fetched id list
    i,               \* process_campaigns: position of the for loop in all_campaigns
    campaign_info,   \* handle_campaign: the snapshot read at line 61
    current_nonce,   \* handle_campaign: the count read at line 67
    action,          \* handle_campaign: the branch taken, "reading" until it is known
    ts,              \* handle_campaign: the block timestamp read at line 81
    cur,             \* index in log of the transaction this process submitted last
    \* history
    runs,            \* number of times the script was started
    evaluated,       \* campaigns whose handle_campaign was entered in this pass
    failed           \* campaigns whose handle_campaign raised in this pass

vars == <<status, txCount, now, log, configOk, pc, exitCause, all_campaigns, i,
          campaign_info, current_nonce, action, ts, cur, runs, evaluated, failed>>

chainVars == <<status, txCount, now, log>>
localVars == <<all_campaigns, i, campaign_info, current_nonce, action, ts, cur>>
histVars == <<runs, evaluated, failed>>

NoInfo == [id |-> 0, status |-> -1, creator |-> <<>>, kol |-> <<>>, offer |-> 0, promo |-> 0, total |-> <<>>]

\* ---------------------------------------------------------- pure parts
\* ------------------------------------------- Python integers and floats
\* A Python integer has no width: it is kept as the sequence of its digits to
\* the base 2^15, lowest first, with no leading zero (0 is the empty sequence).
Base == 32768
DigitBits == 15

RECURSIVE Digits(_)
Digits(n) == IF n = 0 THEN <<>> ELSE <<n % Base>> \o Digits(n \div Base)

\* x without leading zero digits
Trim(x) ==
    LET n == CHOOSE m \in 0..Len(x) :
                 (m = 0 \/ x[m] # 0) /\ \A j \in (m + 1)..Len(x) : x[j] = 0
    IN SubSeq(x, 1, n)

RECURSIVE AddC(_, _, _)
AddC(a, b, c) ==
    IF a = <<>> /\ b = <<>> THEN Digits(c)
    ELSE LET x == IF a = <<>> THEN 0 ELSE Head(a)
             y == IF b = <<>> THEN 0 ELSE Head(b)
             sum == x + y + c
         IN <<sum % Base>> \o AddC(IF a = <<>> THEN a ELSE Tail(a),
                                   IF b = <<>> THEN b ELSE Tail(b), sum \div Base)

\* a + b
Add(a, b) == AddC(a, b, 0)

\* a * d + c for one digit d # 0
RECURSIVE ScaleC(_, _, _)
ScaleC(a, d, c) ==
    IF a = <<>> THEN Digits(c)
    ELSE LET p == Head(a) * d + c
         IN <<p % Base>> \o ScaleC(Tail(a), d, p \div Base)

\* a * b
RECURSIVE Mul(_, _)
Mul(a, b) ==
    IF a = <<>> \/ b = <<>> THEN <<>>
    ELSE LET m == Mul(Tail(a), b)
             rest == IF m = <<>> THEN m ELSE <<0>> \o m
         IN IF Head(a) = 0 THEN rest ELSE Add(ScaleC(b, Head(a), 0), rest)

\* bit k of x, bit 0 the lowest
BitAt(x, k) ==
    LET d == k \div DigitBits + 1
    IN IF d > Len(x) THEN 0 ELSE (x[d] \div 2^(k % DigitBits)) % 2

\* the number of bits of x
BitLen(x) ==
    IF x = <<>> THEN 0
    ELSE DigitBits * (Len(x) - 1)
           + (CHOOSE n \in 1..DigitBits : 2^(n - 1) <= x[Len(x)] /\ x[Len(x)] < 2^n)

\* 2^e
Pow2(e) ==
    [d \in 1..(e \div DigitBits + 1) |->
        IF d = e \div DigitBits + 1 THEN 2^(e % DigitBits) ELSE 0]

\* x with its e lowest bits cleared
ClearLow(x, e) ==
    [d \in 1..Len(x) |->
        IF DigitBits * d <= e THEN 0
        ELSE IF DigitBits * (d - 1) >= e THEN x[d]
        ELSE x[d] - (x[d] % 2^(e - DigitBits * (d - 1)))]

\* x \div 2^s
ShiftRight(x, s) ==
    LET r == s % DigitBits
        at(d) == IF d > Len(x) THEN 0 ELSE x[d]
    IN Trim([d \in 1..Len(x) |->
                at(s \div DigitBits + d) \div 2^r
                  + (at(s \div DigitBits + d + 1) % 2^r) * 2^(DigitBits - r)])

\* the significand of a Python float has 53 bits
Precision == 53

\* float(x) of an integer x: the nearest number of 53 significant bits, a tie
\* going to the even one
Round53(x) ==
    IF BitLen(x) <= Precision THEN x
    ELSE LET e == BitLen(x) - Precision
             up == /\ BitAt(x, e - 1) = 1
                   /\ \/ BitAt(x, e) = 1
                      \/ \E k \in 0..(e - 2) : BitAt(x, k) = 1
         IN IF up THEN Add(ClearLow(x, e), Pow2(e)) ELSE ClearLow(x, e)

\* the float 0.9 is Mant09 / 2^53, Mant09 = 0x1CCCCCCCCCCCCD
Mant09 == <<19661, 6553, 13107, 230>>

\* int(x * 0.9): x is made a float, the product with 0.9 is rounded to a float
\* and int() drops its fraction
int_times_09(x) == ShiftRight(Round53(Mul(Round53(x), Mant09)), Precision)

\* getCampaignInfo(campaign_id).call(): the tuple read from the contract
get_campaign_info(c) ==
    [id |-> c, status |-> status[c], creator |-> creator(c), kol |-> kol(c),
     offer |-> offerDeadline(c), promo |-> promotionDeadline(c),
     total |-> Digits(totalAmount(c))]

\* full_amount = campaign_info[6] * 10 ** 6
full_amount(total) == Mul(total, Digits(Decimals))

\* int(full_amount * 0.9)
share(total) == int_times_09(full_amount(total))

\* transfer(creator, full_amount)
refund_amount(total) == full_amount(total)

\* amount = int(full_amount * 0.9) * 10 ** 6
amount(total) == Mul(share(total), Digits(Decimals))

\* lines 64-65 for the campaigns of the contract, whose totalAmount is fixed
amounts ==
    [c \in Campaigns |-> [full_amount |-> full_amount(Digits(totalAmount(c))),
                          amount |-> amount(Digits(totalAmount(c)))]]

\* Branch with the first test widened to every status from ACCEPTED up
Branch_anyAccepted(st, t, offer, promo) ==
    IF st >= ACCEPTED THEN "fulfil"
    ELSE IF st = OPEN /\ t > offer THEN "discard"
    ELSE "none"

\* Branch with the offer deadline compared by >= instead of >
Branch_offerInclusive(st, t, offer, promo) ==
    IF st = ACCEPTED THEN "fulfil"
    ELSE IF st = OPEN /\ t >= offer THEN "discard"
    ELSE IF st = ACCEPTED /\ t > promo THEN "unfulfill"
    ELSE "none"

\* Branch with an OPEN campaign inside its offer deadline accepted by the loop
Branch_autoAccept(st, t, offer, promo) ==
    IF st = ACCEPTED THEN "fulfil"
    ELSE IF st = OPEN /\ t > offer THEN "discard"
    ELSE IF st = OPEN THEN "accept"
    ELSE "none"

\* Branch with the fulfilment also taken by an already FULFILLED campaign
Branch_fulfilAgain(st, t, offer, promo) ==
    IF st \in {ACCEPTED, FULFILLED} THEN "fulfil"
    ELSE IF st = OPEN /\ t > offer THEN "discard"
    ELSE IF st = ACCEPTED /\ t > promo THEN "unfulfill"
    ELSE "none"

\* the if / elif / elif chain of handle_campaign, lines 69, 81, 95
Branch(st, t, offer, promo) ==
    IF st = ACCEPTED THEN "fulfil"
    ELSE IF st = OPEN /\ t > offer THEN "discard"
    ELSE IF st = ACCEPTED /\ t > promo THEN "unfulfill"
    ELSE "none"

\* transfer_to with the two recipients exchanged
transfer_to_swapped(act, info) == IF act = "fulfil" THEN info.creator ELSE info.kol

\* the recipient and the amount of the transfer of each branch
transfer_to(act, info) == IF act = "fulfil" THEN info.kol ELSE info.creator
transfer_amount(act, info) ==
    IF act = "fulfil" THEN amounts[info.id].amount ELSE amounts[info.id].full_amount

\* the contract: the status a transition needs and the status it leaves
Needs(kind) == IF kind \in {"discard", "accept"} THEN OPEN ELSE ACCEPTED
Leaves(kind) ==
    IF kind = "fulfil" THEN FULFILLED
    ELSE IF kind = "discard" THEN DISCARDED
    ELSE IF kind = "accept" THEN ACCEPTED
    ELSE UNFULFILLED

\* build_transaction with the transfer given the nonce of the transition
build_transaction_sameNonce(seq) ==
    [cid |-> all_campaigns[i],
     kind |-> IF seq = 1 THEN action ELSE "transfer",
     seq |-> seq,
     nonce |-> current_nonce,
     rd |-> 0,
     to |-> IF seq = 1 THEN <<>> ELSE transfer_to(action, campaign_info),
     amt |-> IF seq = 1 THEN <<>> ELSE transfer_amount(action, campaign_info),
     at |-> ts,
     snap |-> campaign_info.status,
     prev |-> IF seq = 1 THEN 0 ELSE cur,
     op |-> "handle_campaign",
     st |-> "pending"]

\* build_transaction with the transition call built a second time in place of the transfer
build_transaction_repeat(seq) ==
    [cid |-> all_campaigns[i],
     kind |-> action,
     seq |-> seq,
     nonce |-> current_nonce + (seq - 1),
     rd |-> 0,
     to |-> IF seq = 1 THEN <<>> ELSE transfer_to(action, campaign_info),
     amt |-> IF seq = 1 THEN <<>> ELSE transfer_amount(action, campaign_info),
     at |-> ts,
     snap |-> campaign_info.status,
     prev |-> IF seq = 1 THEN 0 ELSE cur,
     op |-> "handle_campaign",
     st |-> "pending"]

\* the transaction built for step seq (1: the transition, 2: the transfer)
build_transaction(seq) ==
    [cid |-> all_campaigns[i],
     kind |-> IF seq = 1 THEN action ELSE "transfer",
     seq |-> seq,
     nonce |-> current_nonce + (seq - 1),
     rd |-> 0,
     to |-> IF seq = 1 THEN <<>> ELSE transfer_to(action, campaign_info),
     amt |-> IF seq = 1 THEN <<>> ELSE transfer_amount(action, campaign_info),
     at |-> ts,
     snap |-> campaign_info.status,
     prev |-> IF seq = 1 THEN 0 ELSE cur,
     op |-> "handle_campaign",
     st |-> "pending"]

\* accept_campaign, lines 50-53: the acceptProjectCampaign transaction of campaign c
accept_txn(c) ==
    [cid |-> c,
     kind |-> "accept",
     seq |-> 1,
     nonce |-> current_nonce,
     rd |-> 0,
     to |-> <<>>,
     amt |-> <<>>,
     at |-> 0,
     snap |-> -1,
     prev |-> 0,
     op |-> "accept_campaign",
     st |-> "pending"]

Pending == {j \in DOMAIN log : log[j].st = "pending"}
Mined(j) == log[j].st \in {"ok", "reverted"}

\* a transition of c was applied, the transfer that followed it failed, and no
\* transfer of c was made or is in flight
Owed(c) ==
    /\ \E j \in DOMAIN log :
          /\ log[j].cid = c /\ log[j].kind = "transfer"
          /\ log[j].st \in {"rejected", "dropped", "replaced"}
          /\ log[log[j].prev].st = "ok"
    /\ ~ \E j \in DOMAIN log : log[j].cid = c /\ log[j].kind = "transfer"
                                /\ log[j].st \in {"ok", "pending"}

\* the transition of c was applied and the transfer that followed it was made
Completed(c) ==
    \E j \in DOMAIN log :
        /\ log[j].cid = c /\ log[j].kind = "transfer" /\ log[j].st = "ok"
        /\ log[log[j].prev].st = "ok"

\* ---------------------------------------------------------------- Init
Init ==
    /\ status \in [Campaigns -> Statuses]
    /\ txCount = 0
    /\ now = 0
    /\ log = <<>>
    /\ configOk \in BOOLEAN
    /\ pc = "boot"
    /\ exitCause = "none"
    /\ all_campaigns = <<>>
    /\ i = 0
    /\ campaign_info = NoInfo
    /\ current_nonce = 0
    /\ action = "none"
    /\ ts = 0
    /\ cur = 0
    /\ runs = 1
    /\ evaluated = {}
    /\ failed = {}

\* ------------------------------------------------------------- process
\* lines 12-40: the module body before the loop
Boot ==
    /\ pc = "boot"
    /\ IF configOk
         THEN pc' = "loop" /\ exitCause' = exitCause
         ELSE pc' = "exit" /\ exitCause' = "config"
    /\ UNCHANGED <<chainVars, configOk, localVars, histVars>>

\* an uncaught exception leaves handle_campaign, process_campaigns and the
\* loop: the process is gone, and the locals of its frames with it
Raise(cause) ==
    /\ pc' = "exit"
    /\ exitCause' = cause
    /\ i' = 0
    /\ campaign_info' = NoInfo
    /\ current_nonce' = 0
    /\ action' = "none"
    /\ ts' = 0
    /\ cur' = 0
    /\ UNCHANGED all_campaigns

\* process_campaigns, line 119: getAllCampaigns().call() returns
FetchOk ==
    /\ pc = "loop"
    /\ all_campaigns' = [k \in 1..NumCampaigns |-> k]
    /\ i' = 1
    /\ pc' = "iter"
    /\ evaluated' = {}
    /\ failed' = {}
    /\ UNCHANGED <<chainVars, configOk, exitCause, campaign_info, current_nonce,
                   action, ts, cur, runs>>

\* process_campaigns, line 119: getAllCampaigns().call() raises
FetchFail ==
    /\ pc = "loop"
    /\ Raise("fetch")
    /\ evaluated' = {}
    /\ failed' = {}
    /\ UNCHANGED <<chainVars, configOk, runs>>

\* process_campaigns, line 120: the for loop is exhausted; lines 132-134
EndPass ==
    /\ pc = "iter"
    /\ i > Len(all_campaigns)
    /\ pc' = "sleep"
    /\ UNCHANGED <<chainVars, configOk, exitCause, localVars, histVars>>

\* handle_campaign, lines 61-66: getCampaignInfo answers
HandleRead ==
    /\ pc = "iter"
    /\ i <= Len(all_campaigns)
    /\ campaign_info' = get_campaign_info(all_campaigns[i])
    /\ action' = "reading"
    /\ evaluated' = evaluated \cup {all_campaigns[i]}
    /\ pc' = "nonce"
    /\ UNCHANGED <<chainVars, configOk, exitCause, all_campaigns, i, current_nonce,
                   ts, cur, runs, failed>>

\* handle_campaign, line 67: get_transaction_count answers; then the tests on
\* the status of lines 69, 81 and 95: only status == 0 goes on to ask for the
\* latest block, for every other status the chain is decided with no
\* timestamp read
HandleNonce ==
    /\ pc = "nonce"
    /\ current_nonce' = txCount
    /\ IF campaign_info.status = OPEN
         THEN /\ pc' = "stamp"
              /\ UNCHANGED <<action, ts, i>>
         ELSE LET act == Branch(campaign_info.status, ts, campaign_info.offer,
                                campaign_info.promo)
              IN /\ action' = act
                 /\ ts' = ts
                 /\ pc' = IF act = "none" THEN "return" ELSE "send1"
                 /\ i' = i
    /\ UNCHANGED <<chainVars, configOk, exitCause, all_campaigns, campaign_info, cur,
                   histVars>>

\* handle_campaign, line 81: get_block('latest') answers and the timestamp is
\* compared with the offer deadline
HandleStamp ==
    /\ pc = "stamp"
    /\ LET act == Branch(campaign_info.status, now, campaign_info.offer,
                         campaign_info.promo)
       IN /\ action' = act
          /\ ts' = now
          /\ pc' = IF act = "none" THEN "return" ELSE "send1"
    /\ UNCHANGED <<chainVars, configOk, exitCause, all_campaigns, i, campaign_info,
                   current_nonce, cur, histVars>>

\* handle_campaign returns to the for loop of process_campaigns, line 120; its
\* locals are gone
Return ==
    /\ pc = "return"
    /\ pc' = "iter"
    /\ i' = i + 1
    /\ campaign_info' = NoInfo
    /\ current_nonce' = 0
    /\ action' = "none"
    /\ ts' = 0
    /\ UNCHANGED <<chainVars, configOk, exitCause, all_campaigns, cur, histVars>>

\* handle_campaign, line 61, 67 or 81, or w3.eth.gas_price while a transaction
\* is built (lines 71, 76, 83, 88): a read raises; lines 108-109, 122-123
ReadFail ==
    /\ \/ pc = "iter" /\ i <= Len(all_campaigns)
       \/ pc \in {"nonce", "stamp", "send1", "send2"}
    /\ evaluated' = evaluated \cup {all_campaigns[i]}
    /\ failed' = failed \cup {all_campaigns[i]}
    /\ Raise("campaign")
    /\ UNCHANGED <<chainVars, configOk, runs>>

\* sign_and_send_txn, lines 112-113: the node takes the transaction; a pending
\* transaction of the same nonce is replaced by it
SendOk(seq) ==
    /\ pc = IF seq = 1 THEN "send1" ELSE "send2"
    /\ Len(log) < MaxTx
    /\ LET tx == build_transaction(seq)
       IN /\ tx.nonce >= txCount
          /\ log' = [j \in 1..(Len(log) + 1) |->
                       IF j = Len(log) + 1 THEN tx
                       ELSE IF log[j].st = "pending" /\ log[j].nonce = tx.nonce
                              THEN [log[j] EXCEPT !.st = "replaced"]
                              ELSE log[j]]
    /\ cur' = Len(log) + 1
    /\ pc' = IF seq = 1 THEN "wait1" ELSE "wait2"
    /\ UNCHANGED <<status, txCount, now, configOk, exitCause, all_campaigns, i,
                   campaign_info, current_nonce, action, ts, histVars>>

\* sign_and_send_txn, line 113: send_raw_transaction raises
SendFail(seq) ==
    /\ pc = IF seq = 1 THEN "send1" ELSE "send2"
    /\ Len(log) < MaxTx
    /\ log' = Append(log, [build_transaction(seq) EXCEPT !.st = "rejected"])
    /\ failed' = failed \cup {all_campaigns[i]}
    /\ Raise("campaign")
    /\ UNCHANGED <<status, txCount, now, configOk, runs, evaluated>>

\* WaitOk returning as soon as the transaction is sent, without its receipt
WaitOk_noReceipt(seq) ==
    /\ pc = IF seq = 1 THEN "wait1" ELSE "wait2"
    /\ pc' = IF seq = 1 THEN "send2" ELSE "return"
    /\ UNCHANGED <<chainVars, configOk, exitCause, all_campaigns, i, campaign_info,
                   current_nonce, action, ts, cur, histVars>>

\* sign_and_send_txn, lines 114-115: the receipt is returned, whatever its status
WaitOk(seq) ==
    /\ pc = IF seq = 1 THEN "wait1" ELSE "wait2"
    /\ Mined(cur)
    /\ pc' = IF seq = 1 THEN "send2" ELSE "return"
    /\ UNCHANGED <<chainVars, configOk, exitCause, all_campaigns, i, campaign_info,
                   current_nonce, action, ts, cur, histVars>>

\* sign_and_send_txn, line 114: wait_for_transaction_receipt times out
WaitTimeout(seq) ==
    /\ pc = IF seq = 1 THEN "wait1" ELSE "wait2"
    /\ ~Mined(cur)
    /\ failed' = failed \cup {all_campaigns[i]}
    /\ Raise("campaign")
    /\ UNCHANGED <<chainVars, configOk, runs, evaluated>>

\* lines 126-127 when they are enabled, accept_campaign line 50: before the
\* loop the operator accepts the first campaign of getAllCampaigns(); the
\* two lines are enabled for the first start of the script only
AcceptStart ==
    /\ pc = "loop"
    /\ all_campaigns = <<>>
    /\ cur = 0
    /\ runs = 1
    /\ current_nonce' = txCount
    /\ pc' = "accept_send"
    /\ UNCHANGED <<chainVars, configOk, exitCause, all_campaigns, i, campaign_info,
                   action, ts, cur, histVars>>

\* accept_campaign, line 50 or line 52: get_transaction_count or
\* w3.eth.gas_price raises; lines 56-57
AcceptReadFail ==
    /\ \/ pc = "loop" /\ all_campaigns = <<>> /\ cur = 0 /\ runs = 1
       \/ pc = "accept_send"
    /\ Raise("accept")
    /\ UNCHANGED <<chainVars, configOk, histVars>>

\* accept_campaign, line 54: sign_and_send_txn, the node takes the transaction
AcceptSendOk ==
    /\ pc = "accept_send"
    /\ Len(log) < MaxTx
    /\ LET tx == accept_txn(1)
       IN /\ tx.nonce >= txCount
          /\ log' = [j \in 1..(Len(log) + 1) |->
                       IF j = Len(log) + 1 THEN tx
                       ELSE IF log[j].st = "pending" /\ log[j].nonce = tx.nonce
                              THEN [log[j] EXCEPT !.st = "replaced"]
                              ELSE log[j]]
    /\ cur' = Len(log) + 1
    /\ pc' = "accept_wait"
    /\ UNCHANGED <<status, txCount, now, configOk, exitCause, all_campaigns, i,
                   campaign_info, current_nonce, action, ts, histVars>>

\* accept_campaign, lines 54-57: send_raw_transaction raises
AcceptSendFail ==
    /\ pc = "accept_send"
    /\ Len(log) < MaxTx
    /\ log' = Append(log, [accept_txn(1) EXCEPT !.st = "rejected"])
    /\ Raise("accept")
    /\ UNCHANGED <<status, txCount, now, configOk, histVars>>

\* accept_campaign, lines 54-55: the receipt is returned, then the loop starts
AcceptWaitOk ==
    /\ pc = "accept_wait"
    /\ Mined(cur)
    /\ pc' = "loop"
    /\ UNCHANGED <<chainVars, configOk, exitCause, localVars, histVars>>

\* accept_campaign, lines 54-57: wait_for_transaction_receipt times out
AcceptWaitTimeout ==
    /\ pc = "accept_wait"
    /\ ~Mined(cur)
    /\ Raise("accept")
    /\ UNCHANGED <<chainVars, configOk, histVars>>

\* line 135: time.sleep(10), then the next iteration of while True
Sleep ==
    /\ pc = "sleep"
    /\ pc' = "loop"
    /\ UNCHANGED <<chainVars, configOk, exitCause, localVars, histVars>>

\* the script is started again after it died of an uncaught exception
Restart ==
    /\ pc = "exit"
    /\ exitCause # "config"
    /\ runs < MaxRuns
    /\ runs' = runs + 1
    /\ pc' = "boot"
    /\ exitCause' = "none"
    /\ all_campaigns' = <<>>
    /\ i' = 0
    /\ campaign_info' = NoInfo
    /\ current_nonce' = 0
    /\ action' = "none"
    /\ ts' = 0
    /\ cur' = 0
    /\ evaluated' = {}
    /\ failed' = {}
    /\ UNCHANGED <<chainVars, configOk>>

\* --------------------------------------------------------------- chain
\* a block includes the pending transaction whose nonce is next
Mine(j, ok) ==
    /\ j \in Pending
    /\ log[j].nonce = txCount
    /\ txCount' = txCount + 1
    /\ LET tx == log[j]
           applies == ok /\ (tx.kind \in Lifecycle => status[tx.cid] = Needs(tx.kind))
       IN /\ log' = [log EXCEPT ![j].st = IF applies THEN "ok" ELSE "reverted"]
          /\ status' = IF applies /\ tx.kind \in Lifecycle
                         THEN [status EXCEPT ![tx.cid] = Leaves(tx.kind)]
                         ELSE status
    /\ UNCHANGED <<now, configOk, pc, exitCause, localVars, histVars>>

\* the mempool evicts a pending transaction
Drop(j) ==
    /\ j \in Pending
    /\ log' = [log EXCEPT ![j].st = "dropped"]
    /\ UNCHANGED <<status, txCount, now, configOk, pc, exitCause, localVars, histVars>>

\* a block with a later timestamp arrives, at any moment
Tick ==
    /\ now < MaxTime
    /\ now' = now + 1
    /\ UNCHANGED <<status, txCount, log, configOk, pc, exitCause, localVars, histVars>>

Next ==
    \/ Boot
    \/ FetchOk
    \/ FetchFail
    \/ EndPass
    \/ HandleRead
    \/ HandleNonce
    \/ HandleStamp
    \/ Return
    \/ ReadFail
    \/ \E seq \in {1, 2} : SendOk(seq)
    \/ \E seq \in {1, 2} : SendFail(seq)
    \/ \E seq \in {1, 2} : WaitOk(seq)
    \/ \E seq \in {1, 2} : WaitTimeout(seq)
    \/ AcceptStart
    \/ AcceptReadFail
    \/ AcceptSendOk
    \/ AcceptSendFail
    \/ AcceptWaitOk
    \/ AcceptWaitTimeout
    \/ Sleep
    \/ Restart
    \/ \E j \in DOMAIN log, ok \in BOOLEAN : Mine(j, ok)
    \/ \E j \in DOMAIN log : Drop(j)
    \/ Tick

Spec == Init /\ [][Next]_vars

\* ---------------------------------------------------------------- claims
Listed == {all_campaigns[k] : k \in DOMAIN all_campaigns}
PassOver == pc \in {"sleep", "exit"}
Submitted == {j \in DOMAIN log : log[j].st # "rejected"}

\* C1: when handle_campaign raised for a campaign of a pass, the pass still
\* evaluates every other campaign of the list and the failure does not leave
\* process_campaigns.
C1_Isolation ==
    (PassOver /\ failed # {}) => (evaluated = Listed /\ exitCause # "campaign")

\* C2: a failure of handle_campaign never ends the polling loop: the process
\* does not exit while a campaign of the pass has failed.
C2_LoopSurvives ==
    failed # {} => pc # "exit"

\* C3: an ACCEPTED campaign is fulfilled (and the kol paid) only when handled at
\* or before its promotion deadline, and is marked unfulfilled (and the creator
\* refunded) when handled after it: each time handle_campaign chooses its
\* branch for a campaign it read as ACCEPTED, the choice is unfulfill when the
\* block timestamp is past the promotion deadline and fulfil otherwise.
C3_AcceptedByDeadline ==
    [][(pc = "nonce" /\ pc' = "send1" /\ campaign_info.status = ACCEPTED) =>
          action' = IF now > campaign_info.promo THEN "unfulfill" ELSE "fulfil"]_vars

\* C4: the transfer of an action is submitted only when the receipt of its
\* lifecycle transition reports success.
C4_TransitionFailureStopsAction ==
    \A j \in DOMAIN log :
        log[j].kind = "transfer" => log[log[j].prev].st = "ok"

\* C5: the nonce of the k-th transaction of an action comes from a read of the
\* account's transaction count made after the receipts of the k-1 earlier ones.
C5_NonceReadFresh ==
    \A j \in DOMAIN log : log[j].rd = log[j].seq - 1

\* C6: no two transactions the node took from the owner account carry the same
\* nonce.
C6_NoncesDistinct ==
    \A j, k \in Submitted : j # k => log[j].nonce # log[k].nonce

\* C7: a campaign whose transition was applied and whose transfer failed is
\* never handled by a later pass without the owed transfer being submitted.
C7_PartialRetried ==
    ~ (/\ action = "none"
       /\ campaign_info.status \in Terminal
       /\ Owed(campaign_info.id))

\* a settlement action of c is due
Due(c) ==
    \/ status[c] = ACCEPTED
    \/ status[c] = OPEN /\ now > offerDeadline(c)

\* C8: the process is never left dead by the failure of one campaign while
\* another campaign of the list, whose handling did not fail, is due and not
\* settled.
C8_NoStarvation ==
    \A c \in Campaigns :
        (pc = "exit" /\ exitCause = "campaign" /\ c \in Listed \ failed) => ~Due(c)

\* C9: once the transition and the transfer of a campaign are both confirmed,
\* no later transaction, transition or transfer, is submitted for that campaign.
C9_Idempotent ==
    \A j, k \in DOMAIN log :
        (/\ log[j].kind = "transfer" /\ log[j].st = "ok"
         /\ log[log[j].prev].st = "ok"
         /\ k > j /\ log[k].op = "handle_campaign") => log[k].cid # log[j].cid

\* a completed campaign was handled again and nothing was submitted for it
C9_Witness ==
    /\ action = "none"
    /\ campaign_info.status \in Terminal
    /\ Completed(campaign_info.id)
    /\ pc = "return"

\* C10: an OPEN campaign handled at a time not after its offer deadline gets no
\* transaction; handled after the deadline it gets discardCampaign, and then a
\* transfer to its creator.
C10_OpenByDeadline ==
    /\ (campaign_info.status = OPEN /\ action # "reading") =>
          action = IF ts > campaign_info.offer THEN "discard" ELSE "none"
    /\ \A j \in DOMAIN log :
          log[j].snap = OPEN =>
             /\ log[j].at > offerDeadline(log[j].cid)
             /\ log[j].seq = 1 => log[j].kind = "discard"
             /\ log[j].seq = 2 =>
                   /\ log[j].kind = "transfer"
                   /\ log[j].to = creator(log[j].cid)
                   /\ log[log[j].prev].kind = "discard"
                   /\ log[log[j].prev].cid = log[j].cid
    /\ (pc \in {"send1", "wait1", "send2", "wait2"} /\ campaign_info.status = OPEN) =>
          action = "discard"
    /\ (pc = "wait2" /\ campaign_info.status = OPEN) =>
          /\ log[cur].kind = "transfer"
          /\ log[cur].to = campaign_info.creator

\* an expired OPEN campaign was discarded and refunded, and another OPEN
\* campaign was then handled exactly at its offer deadline with no action
C10_Witness ==
    /\ \E j \in DOMAIN log :
          log[j].snap = OPEN /\ log[j].kind = "transfer" /\ log[j].st = "ok"
    /\ campaign_info.status = OPEN
    /\ ts = campaign_info.offer
    /\ action = "none"
    /\ pc = "return"

\* C11: a campaign whose status is FULFILLED, DISCARDED or UNFULFILLED gets no
\* transaction from handle_campaign, at any time and for any deadline.
C11_TerminalNoAction ==
    /\ campaign_info.status \in Terminal =>
          /\ action \in {"reading", "none"}
          /\ pc \notin {"send1", "wait1", "send2", "wait2"}
    /\ \A j \in DOMAIN log : log[j].snap \notin Terminal

\* an UNFULFILLED campaign was handled, both of its deadlines are past and the
\* invocation returns with nothing submitted for it
C11_Witness ==
    /\ campaign_info.status = UNFULFILLED
    /\ now > campaign_info.offer
    /\ now > campaign_info.promo
    /\ action = "none"
    /\ pc = "return"

\* C12: the second transaction of an action is the transfer; it directly follows
\* the transition of the same campaign, is submitted after the transition's
\* receipt, and carries the transition's nonce plus one; after discardCampaign
\* it is transfer(creator, full_amount).
C12_TransitionThenTransfer ==
    \A j \in DOMAIN log :
        log[j].seq = 2 =>
            /\ log[j].kind = "transfer"
            /\ log[j].prev = j - 1
            /\ log[j - 1].seq = 1
            /\ log[j - 1].kind \in Transitions
            /\ log[j - 1].cid = log[j].cid
            /\ Mined(j - 1)
            /\ log[j].nonce = log[j - 1].nonce + 1
            /\ log[j - 1].kind = "discard" =>
                  /\ log[j].to = creator(log[j].cid)
                  /\ log[j].amt = full_amount(Digits(totalAmount(log[j].cid)))

\* discardCampaign and the transfer to the creator were both mined, with two
\* consecutive nonces
C12_Witness ==
    \E j \in DOMAIN log :
        /\ j > 1
        /\ log[j - 1].kind = "discard" /\ log[j - 1].st = "ok"
        /\ log[j].kind = "transfer" /\ log[j].st = "ok"
        /\ log[j].nonce = log[j - 1].nonce + 1

\* round(0.9 * a), halves to the even neighbour
Round90(a) ==
    LET q == (9 * a) \div 10
        r == (9 * a) % 10
    IN IF r > 5 \/ (r = 5 /\ q % 2 = 1) THEN q + 1 ELSE q

\* C13: a refund transfers the raw totalAmount a unscaled, and a payout
\* transfers round(0.9 * a) in the same unit.
C13_AmountConsistency ==
    \A j \in DOMAIN log :
        log[j].kind = "transfer" =>
            log[j].amt = IF log[log[j].prev].kind = "fulfil"
                           THEN Digits(Round90(totalAmount(log[j].cid)))
                           ELSE Digits(totalAmount(log[j].cid))

\* C14: a failed fetch of the campaign list does not end the process, so that
\* the fetch is made again after the sleep.
C14_FetchRetried ==
    exitCause # "fetch"

\* C15: a transfer goes to the kol of its campaign after fulfilProjectCampaign
\* and to the creator of its campaign after discardCampaign or unfulfillCampaign,
\* the campaign being the one of the transition before it.
C15_Recipient ==
    \A j \in DOMAIN log :
        log[j].kind = "transfer" =>
            /\ log[log[j].prev].cid = log[j].cid
            /\ log[j].to = IF log[log[j].prev].kind = "fulfil"
                             THEN kol(log[j].cid) ELSE creator(log[j].cid)

\* a payout to the kol was mined after a fulfilment that was applied
C15_Witness ==
    \E j \in DOMAIN log :
        /\ log[j].kind = "transfer" /\ log[j].st = "ok"
        /\ log[j].to = kol(log[j].cid)
        /\ log[log[j].prev].kind = "fulfil" /\ log[log[j].prev].st = "ok"

\* C16: the process submits a transaction only when the receipt of the
\* transaction it submitted before is in, and a pass starts only when the for
\* loop of the pass before it is exhausted.
C16_Serialized ==
    /\ (pc \in {"send1", "send2"} /\ cur # 0) => Mined(cur)
    /\ pc \in {"loop", "sleep"} => (all_campaigns = <<>> \/ i > Len(all_campaigns))

\* the transition of a second action is about to be submitted, after the
\* receipt of the transfer of the first
C16_Witness ==
    /\ pc = "send1"
    /\ cur # 0
    /\ log[cur].seq = 2
    /\ Mined(cur)

\* C17: acceptProjectCampaign is submitted by accept_campaign only, never by
\* handle_campaign, and a campaign goes from OPEN to ACCEPTED only when a
\* transaction of accept_campaign is mined.
C17_NoAutoAccept ==
    /\ [](\A j \in DOMAIN log :
             /\ log[j].kind = "accept" => log[j].op = "accept_campaign"
             /\ log[j].op = "handle_campaign" => log[j].kind \in Transitions \cup {"transfer"})
    /\ [][\A c \in Campaigns :
             (status[c] = OPEN /\ status'[c] = ACCEPTED) =>
                 \E j \in Pending :
                     /\ log[j].op = "accept_campaign" /\ log[j].cid = c
                     /\ log'[j].st = "ok"]_vars

\* accept_campaign moved a campaign to ACCEPTED and a pass of the loop then
\* submitted the fulfilment of that campaign
C17_Witness ==
    /\ Len(log) >= 2
    /\ log[1].kind = "accept" /\ log[1].st = "ok"
    /\ log[2].op = "handle_campaign" /\ log[2].cid = log[1].cid
    /\ log[2].kind = "fulfil"

\* C18: no campaign gets more than one transfer, and a transfer is submitted
\* only after the transition of its campaign was applied.
C18_NoDoublePayout ==
    /\ \A j \in Submitted :
          log[j].kind = "transfer" => log[log[j].prev].st = "ok"
    /\ \A j, k \in Submitted :
          (j # k /\ log[j].kind = "transfer" /\ log[k].kind = "transfer") =>
              log[j].cid # log[k].cid

\* C19: the first transaction of an invocation of handle_campaign is one
\* transition, the second is the transfer that follows it, a transfer is never
\* first, and an invocation that returns after acting has submitted the two.
C19_ZeroOrTwo ==
    /\ \A j \in DOMAIN log :
          /\ (log[j].seq = 1 /\ log[j].kind # "accept") =>
                 log[j].kind \in Transitions
          /\ log[j].kind = "transfer" => log[j].seq = 2
          /\ log[j].seq = 2 =>
                 /\ log[j].kind = "transfer"
                 /\ j > 1
                 /\ log[j - 1].seq = 1
                 /\ log[j - 1].kind \in Transitions
    /\ (pc = "return" /\ action \in Transitions) =>
          /\ cur = Len(log)
          /\ cur > 1
          /\ log[cur].kind = "transfer"
          /\ log[cur].cid = campaign_info.id
          /\ log[cur - 1].kind = action
          /\ log[cur - 1].cid = campaign_info.id

\* an invocation returned after its transition and its transfer
C19_Witness ==
    /\ pc = "return"
    /\ action \in Transitions
    /\ Len(log) = 2
    /\ log[1].kind \in Transitions
    /\ log[2].kind = "transfer"

TypeOK ==
    /\ status \in [Campaigns -> Statuses]
    /\ txCount \in 0..MaxTx
    /\ now \in 0..MaxTime
    /\ Len(log) <= MaxTx
    /\ pc \in {"boot", "loop", "accept_send", "accept_wait", "iter", "nonce", "stamp", "return", "send1", "wait1",
             "send2", "wait2", "sleep", "exit"}
    /\ exitCause \in {"none", "config", "fetch", "campaign", "accept"}
====
